---- MODULE Spec2Model ----
(***************************************************************************)
(* Model of the paper-search application src/app.py (and its earlier       *)
(* variant src/過去/app.py): the text utilities, the filter pipeline       *)
(* apply_filters, the row identity make_row_id and the favourites / tag    *)
(* store kept in st.session_state.                                         *)
(*                                                                         *)
(* Strings are sequences of characters.  A character is an atom written    *)
(* as a TLA+ string: ASCII characters stand for themselves, every other    *)
(* character is named by its code point or, for kanji, by a reading:       *)
(*   "U+00A0" no-break space      "U+3000" ideographic (full-width) space  *)
(*   "U+3001" ideographic comma   "U+FF0C" full-width comma                *)
(*   "U+FF1B" full-width semicolon                                         *)
(*   "fu" 不  "nyu" 乳  "mei" 明  "bo" 母  "sei" 清  "kin" 菌  "shu" 酒     *)
(*   "kou" 酵  "san" 酸  "ta" 他  "shin" 新  "butsu" 物  "shitsu" 質        *)
(*   "so" そ  "no" の  "BI" ビ  "RU" ル  "--" ー                            *)
(*   "U+3042" あ  "U+304B" か  "U+304C" が  "U+30A2" ア                     *)
(***************************************************************************)
EXTENDS Integers, Sequences, FiniteSets, TLC

----------------------------------------------------------------------------
(* Characters *)

\* every character of the model, in code point order (Python's str order)
CodeOrder ==
  << "\t", "\n", " ", ",", "/", "0", "1", "2", "5", "9", ":", ";",
     "A", "B", "N", "O", "T", "Y", "a", "b", "e", "n", "o", "t", "y", "|",
     "U+00A0", "U+3000", "U+3001",
     "U+3042", "U+304B", "U+304C", "so", "no", "U+30A2", "BI", "RU", "--",
     "fu", "nyu", "ta", "shin", "mei", "bo", "sei", "butsu", "kin", "shitsu",
     "shu", "kou", "san", "U+FF0C", "U+FF1B" >>

Code(c) == CHOOSE i \in 1..Len(CodeOrder) : CodeOrder[i] = c

\* str.isspace / the regex class \s
WhiteSpace == {"\t", "\n", " ", "U+00A0", "U+3000"}

Digits == {"0", "1", "2", "5", "9"}

DigitVal(c) ==
  CASE c = "0" -> 0 [] c = "1" -> 1 [] c = "2" -> 2 [] c = "5" -> 5 [] c = "9" -> 9

\* str.lower on one character
LowerChar(c) ==
  CASE c = "A" -> "a" [] c = "B" -> "b" [] c = "N" -> "n" [] c = "O" -> "o"
    [] c = "T" -> "t" [] c = "Y" -> "y" [] OTHER -> c

\* the class [ ,，、；;　] of tokens_from_query, parse_tags and the tag filter
QUERY_SPLIT == {" ", ",", "U+FF0C", "U+3001", "U+FF1B", ";", "U+3000"}

\* the class [;；,、，/／|｜] of AUTHOR_SPLIT_RE (the full-width slash and bar are
\* not characters of the model)
AUTHOR_SPLIT == {";", "U+FF1B", ",", "U+3001", "U+FF0C", "/", "|"}

----------------------------------------------------------------------------
(* Python string primitives *)

\* F(v) for the value v of e: e is evaluated once, whatever F does with it
With(e, F(_)) == CHOOSE r \in {F(v) : v \in {e}} : TRUE

Lower(s) == With(s, LAMBDA v : [i \in 1..Len(v) |-> LowerChar(v[i])])

RECURSIVE FirstNonSpace(_, _)
\* the first position from i on that holds no white space, Len(s) + 1 if none
FirstNonSpace(s, i) ==
  IF i > Len(s) \/ s[i] \notin WhiteSpace THEN i ELSE FirstNonSpace(s, i + 1)

RECURSIVE LastNonSpace(_, _)
\* the last position up to i that holds no white space, 0 if none
LastNonSpace(s, i) ==
  IF i < 1 \/ s[i] \notin WhiteSpace THEN i ELSE LastNonSpace(s, i - 1)

\* str.strip()
Strip(s) ==
  With(s, LAMBDA v : SubSeq(v, FirstNonSpace(v, 1), LastNonSpace(v, Len(v))))

\* t in s, for strings
IsSubstring(t, s) ==
  \E v \in {<<t, s>>} :
    \E i \in 0..(Len(v[2]) - Len(v[1])) : SubSeq(v[2], i + 1, i + Len(v[1])) = v[1]

RECURSIVE ReSplitFrom(_, _, _, _, _)
ReSplitFrom(s, i, cur, sep, inSep) ==
  IF i > Len(s) THEN <<cur>>
  ELSE IF s[i] \in sep
    THEN IF inSep THEN ReSplitFrom(s, i + 1, cur, sep, TRUE)
         ELSE <<cur>> \o ReSplitFrom(s, i + 1, <<>>, sep, TRUE)
    ELSE ReSplitFrom(s, i + 1, Append(cur, s[i]), sep, FALSE)

\* re.split(r"[sep]+", s): the pieces between maximal runs of separators, an
\* empty piece at either end when s begins or ends with a separator
ReSplit(s, sep) == With(s, LAMBDA v : ReSplitFrom(v, 1, <<>>, sep, FALSE))

RECURSIVE JoinFrom(_, _, _)
JoinFrom(parts, sep, k) ==
  IF k > Len(parts) THEN <<>>
  ELSE IF k = Len(parts) THEN parts[k]
  ELSE parts[k] \o sep \o JoinFrom(parts, sep, k + 1)

\* sep.join(parts)
Join(parts, sep) == With(parts, LAMBDA v : JoinFrom(v, sep, 1))

RECURSIVE StrLessFrom(_, _, _)
StrLessFrom(s, t, i) ==
  IF i > Len(t) THEN FALSE
  ELSE IF i > Len(s) THEN TRUE
  ELSE IF s[i] # t[i] THEN Code(s[i]) < Code(t[i])
  ELSE StrLessFrom(s, t, i + 1)

\* s < t in Python's (code point, lexicographic) order
StrLess(s, t) == \E v \in {<<s, t>>} : StrLessFrom(v[1], v[2], 1)

\* sorted(S) for a set of strings: the k-th is the one with k - 1 smaller ones
Sorted(S) ==
  With(S, LAMBDA V :
    [k \in 1..Cardinality(V) |->
       CHOOSE x \in V : Cardinality({y \in V : StrLess(y, x)}) = k - 1])

\* the set of the elements of a sequence
Range(s) == {s[i] : i \in 1..Len(s)}

----------------------------------------------------------------------------
(* Cells *)

\* pandas' missing value (an empty CSV cell, or the text NA)
NaN == <<"NaN">>

\* str(x) of a cell
Str(x) == IF x = NaN THEN <<"n", "a", "n">> ELSE x

\* row.get(col, "")
Get(row, col) == IF col \in DOMAIN row THEN row[col] ELSE <<>>

----------------------------------------------------------------------------
(* Text utilities, src/app.py 142-161 *)

RECURSIVE CollapseFrom(_, _, _)
CollapseFrom(s, i, inWs) ==
  IF i > Len(s) THEN <<>>
  ELSE IF s[i] \in WhiteSpace
    THEN (IF inWs THEN <<>> ELSE <<" ">>) \o CollapseFrom(s, i + 1, TRUE)
    ELSE <<s[i]>> \o CollapseFrom(s, i + 1, FALSE)

norm_space(s) == Strip(With(Str(s), LAMBDA v : CollapseFrom(v, 1, FALSE)))

norm_key(s) == Lower(norm_space(s))

split_authors(cell) ==
  IF cell = <<>> THEN <<>>
  ELSE With(ReSplit(Str(cell), AUTHOR_SPLIT), LAMBDA pieces :
         SelectSeq([i \in 1..Len(pieces) |-> Strip(pieces[i])],
                   LAMBDA w : w # <<>>))

tokens_from_query(q) ==
  SelectSeq(ReSplit(norm_key(q), QUERY_SPLIT), LAMBDA t : t # <<>>)

----------------------------------------------------------------------------
(* The author candidates, src/app.py 192-199 *)

RECURSIVE names_of_column(_, _)
\* the names the two loops of build_author_candidates visit, in their order:
\* split_authors(v) of every cell v of the column from cell k on, after
\* fillna("")
names_of_column(col, k) ==
  IF k > Len(col) THEN <<>>
  ELSE split_authors(IF col[k] = NaN THEN <<>> ELSE col[k])
         \o names_of_column(col, k + 1)

\* a faulty rep[k] = name: a later name of the key replaces the earlier one
rep_put_last(rep, name) ==
  With(norm_key(name), LAMBDA k :
    IF k # <<>>
      THEN [x \in DOMAIN rep \cup {k} |-> IF x = k THEN name ELSE rep[x]]
      ELSE rep)

\* if k and k not in rep: rep[k] = name
rep_put(rep, name) ==
  With(norm_key(name), LAMBDA k :
    IF k # <<>> /\ k \notin DOMAIN rep
      THEN [x \in DOMAIN rep \cup {k} |-> IF x = k THEN name ELSE rep[x]]
      ELSE rep)

RECURSIVE rep_from(_, _, _)
\* rep after the names from position i on
rep_from(names, i, rep) ==
  IF i > Len(names) THEN rep
  ELSE With(rep_put(rep, names[i]), LAMBDA r : rep_from(names, i + 1, r))

\* build_author_candidates(df), col being the 著者 column of df (<<>> when df
\* has no such column)
build_author_candidates(col) ==
  With(rep_from(names_of_column(col, 1), 1, <<>>), LAMBDA r :
    With(Sorted(DOMAIN r), LAMBDA keys : [i \in 1..Len(keys) |-> r[keys[i]]]))

----------------------------------------------------------------------------
(* The order of the target and research type lists, src/app.py 130-133 and  *)
(* 216-224                                                                  *)

Seishu == <<"sei", "shu">>            \* 清酒
Biiru == <<"BI", "--", "RU">>         \* ビール
Sonota == <<"so", "no", "ta">>        \* その他

\* TARGET_ORDER (three of its fourteen entries: the first two and the last)
TARGET_ORDER == <<Seishu, Biiru, Sonota>>

RECURSIVE fromkeys(_, _, _)
\* list(dict.fromkeys(values)): values without the repetitions, from position
\* i on, seen being the values before i
fromkeys(values, i, seen) ==
  IF i > Len(values) THEN <<>>
  ELSE IF values[i] \in seen THEN fromkeys(values, i + 1, seen)
  ELSE <<values[i]>> \o fromkeys(values, i + 1, seen \cup {values[i]})

\* "その他" in v
is_other(v) == IsSubstring(Sonota, v)

\* head = [v for v in template if v in vs and "その他" not in v]
head(vs, template) ==
  SelectSeq(template, LAMBDA v : v \in Range(vs) /\ ~is_other(v))

\* a faulty mid: the values that the template lacks are left as they came
mid_unsorted(vs, template) ==
  SelectSeq(vs, LAMBDA v : v \notin Range(template) /\ ~is_other(v))

\* mid = sorted([v for v in vs if v not in tmpl_set and "その他" not in v])
mid(vs, template) ==
  Sorted({v \in Range(vs) : v \notin Range(template) /\ ~is_other(v)})

\* tail = [v for v in template if v in vs and "その他" in v]
\*        + [v for v in vs if ("その他" in v and v not in template)]
tail(vs, template) ==
  SelectSeq(template, LAMBDA v : v \in Range(vs) /\ is_other(v))
    \o SelectSeq(vs, LAMBDA v : is_other(v) /\ v \notin Range(template))

\* order_by_template(values, template)
order_by_template(values, template) ==
  With(fromkeys(values, 1, {}), LAMBDA vs :
    head(vs, template) \o mid(vs, template) \o tail(vs, template))

----------------------------------------------------------------------------
(* The order of the author readings, src/app.py 442-456 *)

\* AIUEO_ORDER (four of its 46 entries: あ か そ の)
AIUEO_ORDER == <<"U+3042", "U+304B", "so", "no">>

\* the class [A-Za-z]
Roman == {"A", "B", "N", "O", "T", "Y", "a", "b", "e", "n", "o", "t", "y"}

\* the class [゠-ヿ]
Katakana == {"U+30A2", "BI", "RU", "--"}

\* AIUEO_ORDER.find(ch)
find(order, ch) ==
  IF ch \in Range(order)
    THEN (CHOOSE k \in 1..Len(order) : order[k] = ch) - 1
    ELSE -1

\* sort_tuple(reading)
sort_tuple(reading) ==
  IF reading = <<>> THEN <<3, 999, <<>> >>
  ELSE IF reading[1] \in Roman THEN <<2, 999, <<LowerChar(reading[1])>> >>
  ELSE IF reading[1] \in Katakana THEN <<1, 999, reading>>
  ELSE With(find(AIUEO_ORDER, reading[1]), LAMBDA idx :
         <<0, IF idx # -1 THEN idx ELSE 998, reading>>)

\* the order of sort_values(by=["_grp", "_key", "_sub"]) on two rows
tuple_less(t, u) ==
  \/ t[1] < u[1]
  \/ t[1] = u[1] /\ t[2] < u[2]
  \/ t[1] = u[1] /\ t[2] = u[2] /\ StrLess(t[3], u[3])

\* cand.assign(...).sort_values(by=[...], kind="mergesort"): the readings in the
\* order of their tuples, equal tuples in the order they came in
sort_values(readings) ==
  With([i \in 1..Len(readings) |-> sort_tuple(readings[i])], LAMBDA t :
    [k \in 1..Len(readings) |->
       readings[CHOOSE i \in 1..Len(readings) :
                  Cardinality({j \in 1..Len(readings) :
                                 \/ tuple_less(t[j], t[i])
                                 \/ t[j] = t[i] /\ j < i}) = k - 1]])

----------------------------------------------------------------------------
(* The dataset.  Column names: "No" is No., "year" is 発行年, "vol" is 巻数, *)
(* "issue" is 号数, "title" is 論文タイトル, "author" is 著者, "target" is   *)
(* 対象物_top3, "type" is 研究タイプ_top3, "kw1" is キーワード1.            *)

VARIABLES
  df,            \* the loaded table, by its name in Tables
  y_from, y_to,  \* the year slider
  vols_sel, issues_sel, authors_sel, targets_sel, types_sel,  \* the multiselects
  kw_query, kw_mode,  \* the keyword box and its AND/OR radio
  filtered,      \* apply_filters(df): the index labels of the rows kept, in order
  favs,          \* st.session_state.favs
  fav_tags,      \* st.session_state.fav_tags
  main_editor,   \* the pending edits of the main table: the positions whose ★ is toggled
  fav_editor,    \* the pending edits of the favourites table: [stars, tags]
  last           \* the event of the last rerun and what the user submitted in it

qvars == <<y_from, y_to, vols_sel, issues_sel, authors_sel, targets_sel,
           types_sel, kw_query, kw_mode>>
vars == <<df, y_from, y_to, vols_sel, issues_sel, authors_sel, targets_sel,
          types_sel, kw_query, kw_mode, filtered, favs, fav_tags,
          main_editor, fav_editor, last>>

\* the keyword columns (three of the fourteen of the source)
KEY_COLS == <<"llm_keywords", "primary_keywords", "kw1">>

Cols(d) == Range(d.cols)

Index(d) == 1..Len(d.rows)

\* a frame's cell: the column of row label i
Cell(d, i, col) == d.rows[i][col]

RECURSIVE NumValTo(_, _)
NumValTo(s, k) ==
  IF k = 0 THEN 0 ELSE 10 * NumValTo(s, k - 1) + DigitVal(s[k])

\* the value of a string of decimal digits
NumVal(s) == With(s, LAMBDA v : NumValTo(v, Len(v)))

AllDigits(s) == s # <<>> /\ \A i \in 1..Len(s) : s[i] \in Digits

\* pd.to_numeric(cell, errors="coerce"): {} is NaN.  Of the numbers pandas reads
\* the model has the unsigned decimal integers.
to_numeric(x) ==
  IF x = NaN THEN {}
  ELSE With(Strip(x), LAMBDA v : IF AllDigits(v) THEN {NumVal(v)} ELSE {})

RECURSIVE FirstDigitRun(_, _, _)
\* re.search(r"\d+", s).group(), from position i on; <<>> when there is no digit
FirstDigitRun(s, i, started) ==
  IF i > Len(s) THEN <<>>
  ELSE IF s[i] \in Digits THEN <<s[i]>> \o FirstDigitRun(s, i + 1, TRUE)
  ELSE IF started THEN <<>>
  ELSE FirstDigitRun(s, i + 1, FALSE)

\* a faulty to_int_or_none: a cell that is not a number as a whole has no integer
to_int_whole_cell(x) ==
  With(Strip(Str(x)), LAMBDA v : IF AllDigits(v) THEN {NumVal(v)} ELSE {})

\* to_int_or_none(x): {} is None
to_int_or_none(x) ==
  With(Str(x), LAMBDA v :
    IF AllDigits(Strip(v)) THEN {NumVal(Strip(v))}
    ELSE With(FirstDigitRun(v, 1, FALSE), LAMBDA run :
           IF run # <<>> THEN {NumVal(run)} ELSE {}))

\* haystack(row)
haystack(row) ==
  LET present == SelectSeq(KEY_COLS, LAMBDA c : c \in DOMAIN row)
      kws == [k \in 1..Len(present) |-> Str(Get(row, present[k]))]
      parts == << Str(Get(row, "title")), Str(Get(row, "author")),
                  Str(Get(row, "file_name")), Join(kws, <<" ">>) >>
  IN norm_key(Join(parts, <<" ", "\n", " ">>))

\* make_visible_cols(df): the columns shown, in order
make_visible_cols(d) ==
  LET base_hide == {"relpath", "end_page", "file_path", "num_pages", "file_name"}
      idx == IF "llm_keywords" \in Cols(d)
               THEN CHOOSE k \in 1..Len(d.cols) : d.cols[k] = "llm_keywords"
               ELSE Len(d.cols) + 1
      keep == {k \in 1..Len(d.cols) : d.cols[k] \notin base_hide /\ k < idx}
  IN SelectSeq(d.cols, LAMBDA c : \E k \in keep : d.cols[k] = c)

\* a faulty make_row_id: the placeholders none and nan count as a No.
make_row_id_of_placeholder(row) ==
  LET no == Strip(Str(Get(row, "No")))
      ttl == Strip(Str(Get(row, "title")))
      yr == Strip(Str(Get(row, "year")))
  IN IF no # <<>>
       THEN <<"N", "O", ":">> \o no
       ELSE <<"T", ":">> \o ttl \o <<"|", "Y", ":">> \o yr

\* make_row_id(row)
make_row_id(row) ==
  LET no == Strip(Str(Get(row, "No")))
      ttl == Strip(Str(Get(row, "title")))
      yr == Strip(Str(Get(row, "year")))
  IN IF no # <<>> /\ Lower(no) \notin {<<"n", "o", "n", "e">>, <<"n", "a", "n">>}
       THEN <<"N", "O", ":">> \o no
       ELSE <<"T", ":">> \o ttl \o <<"|", "Y", ":">> \o yr

\* the row of label i as disp and fav_disp_full hold it: its visible columns
VisibleRow(d, i) ==
  [c \in Range(make_visible_cols(d)) |-> d.rows[i][c]]

\* disp["_row_id"] = disp.apply(make_row_id, axis=1), for one row
row_id_of(d, i) == make_row_id(VisibleRow(d, i))

----------------------------------------------------------------------------
(* Data of the model *)

\* cells the user edits in a table before submitting it (the user edits one
\* table at a time)
MaxEdits == 2

\* filter widgets the user has moved away from their defaults at one time
MaxActive == 3

Nyusankin == <<"nyu", "san", "kin">>  \* 乳酸菌
Koubo == <<"kou", "bo">>              \* 酵母
Fumei == <<"fu", "mei">>              \* 不明

StdCols ==
  <<"No", "year", "vol", "issue", "title", "author", "file_name",
    "target", "type", "llm_keywords", "kw1">>

Row(no, year, vol, issue, title, author, target, type, kw) ==
  [ No |-> no, year |-> year, vol |-> vol, issue |-> issue, title |-> title,
    author |-> author, file_name |-> title \o <<"1">>, target |-> target,
    type |-> type, llm_keywords |-> kw, kw1 |-> NaN ]

\* the rows of the data: rows 3 and 4 have no No. and the same title and
\* year; the year of row 5 is empty (or NA), that of row 6 is the text 不明
R1 ==
  Row(<<"1">>, <<"1", "9", "9", "0">>, <<"1">>, <<"1">>, <<"a">>,
      <<"a", " ", "b">>, Seishu, <<"a">>, Seishu \o <<" ">> \o Koubo)

R2 ==
  Row(<<"2">>, <<"2", "0", "0", "5">>, <<"2">>, <<"2">>, <<"b">>,
      <<"A", " ", " ", "B", ";", "b">>, Seishu \o <<",">> \o Koubo, <<"b">>,
      Nyusankin \o <<",">> \o Seishu)

R3 ==
  Row(NaN, <<"2", "0", "0", "5">>, <<"2">>, <<"1">>, <<"b">>,
      <<"b">>, Koubo, <<"a">>, Koubo)

R4 ==
  Row(NaN, <<"2", "0", "0", "5">>, <<"1">>, <<"2">>, <<"b">>,
      <<"a", " ", "b">>, Koubo, <<"b">>, NaN)

R5 ==
  Row(<<"5">>, NaN, NaN, NaN, <<"a", "b">>,
      NaN, NaN, NaN, Seishu)

R6 ==
  Row(<<"9">>, Fumei, <<"a", "2", "b", "1">>, <<"2">>, <<"a">>,
      <<"b">>, Seishu, <<"a">>, Seishu \o Koubo)

R7 ==
  Row(<<"0">>, <<"2", "0", "1", "0">>, <<" ", "1">>, <<"1">>, <<"a", "b">>,
      <<"b", "/", "a", "U+3000", "b">>, Nyusankin, <<"b">>, Nyusankin)

\* a CSV that has only the columns cols: the records cut down to them
Csv(cols, recs) ==
  [ cols |-> cols,
    rows |-> [k \in 1..Len(recs) |-> [c \in Range(cols) |-> recs[k][c]]] ]

\* the tables a run may load: [cols: the column names in order, rows: the rows];
\* nofile has every column but file_name, noyear every column but 発行年 and
\* 著者, bare has 論文タイトル and キーワード1 only
Tables ==
  [ session |-> [cols |-> StdCols, rows |-> <<R1, R2, R3, R4>>],
    years |-> [cols |-> StdCols, rows |-> <<R1, R2, R5>>],
    corpus |-> [cols |-> StdCols, rows |-> <<R1, R2, R3, R4, R5, R6, R7>>],
    nofile |-> Csv(SelectSeq(StdCols, LAMBDA c : c # "file_name"), <<R1, R2>>),
    noyear |-> Csv(SelectSeq(StdCols, LAMBDA c : c \notin {"year", "author"}),
                   <<R1, R5>>),
    bare |-> Csv(<<"title", "kw1">>, <<R1, R2, R3>>) ]

\* the 著者 columns build_author_candidates is applied to: up to MaxCells
\* cells, each one of AuthorCells
MaxCells == 3

AuthorCells ==
  { NaN,
    <<"a", " ", "b">>,
    <<"A", " ", " ", "B", ";", "b">>,
    <<"b", "/", "a", "U+3000", "b">>,
    <<" ", "B", " ", ",", ",">> }

AuthorColumns == UNION {[1..n -> AuthorCells] : n \in 0..MaxCells}

\* the values order_by_template is applied to: up to MaxValues values, each
\* one of CategoryValues (two entries of the template, its その他, a その他 of
\* the data, two values the template lacks)
MaxValues == 3

Shinbusshitsu == <<"shin", "butsu", "shitsu">>   \* 新物質

CategoryValues ==
  { Seishu, Biiru, Sonota, Sonota \o <<"A">>, Shinbusshitsu, Nyusankin }

ObservedValues == UNION {[1..n -> CategoryValues] : n \in 0..MaxValues}

\* the readings of authors_readings.csv sort_values is applied to: up to
\* MaxReadings readings, no two the same (drop_duplicates), each one of
\* Readings: あ, かの, がの, アの, b, Ab, a, 1a, 清
MaxReadings == 3

Readings ==
  { <<"U+3042">>, <<"U+304B", "no">>, <<"U+304C", "no">>, <<"U+30A2", "no">>,
    <<"b">>, <<"A", "b">>, <<"a">>, <<"1", "a">>, <<"sei">> }

ReadingColumns ==
  {col \in UNION {[1..n -> Readings] : n \in 0..MaxReadings} :
     \A i, j \in 1..Len(col) : i # j => col[i] # col[j]}

\* what the user may leave in a tags cell
TagTexts ==
  { <<>>,
    Seishu \o <<" ">> \o Seishu,
    <<"U+3000">> \o Seishu \o <<"U+FF1B">> \o Nyusankin \o <<",">> }

\* the widget values the filter pipeline is run with
YearStops == {1990, 2000, 2005, 2010}

VolChoices == { {}, {1}, {1, 2} }

IssueChoices == { {}, {1} }

\* the last is an author of the name Nan
AuthorChoices == { {}, {<<"A", " ", "b">>}, {<<"b">>}, {<<"N", "a", "n">>} }

TargetChoices == { {}, {Seishu}, {Koubo} }

TypeChoices == { {}, {<<"a">>} }

KwQueries ==
  { <<>>,
    <<",", " ">>,
    Seishu \o <<"U+3000">> \o Nyusankin,
    <<" ">> \o Koubo \o <<",">>,
    <<"A", " ", "B">> }

----------------------------------------------------------------------------
(* The filter pipeline, src/app.py 486-513.  A frame is the sequence of the *)
(* index labels of its rows; the widgets are read as the code reads them.   *)
(* What the script derives from a cell alone is computed once per table.    *)

\* f(d, i) for every row i of every table d
Column(f(_, _)) ==
  With(Tables, LAMBDA T :
    [ n \in DOMAIN T |-> [ i \in 1..Len(T[n].rows) |-> f(T[n], i) ] ])

\* pd.to_numeric(df["発行年"], errors="coerce")
YearColumn ==
  Column(LAMBDA d, i : IF "year" \in Cols(d) THEN to_numeric(d.rows[i].year) ELSE {})

\* df["巻数"].map(to_int_or_none)
VolColumn ==
  Column(LAMBDA d, i : IF "vol" \in Cols(d) THEN to_int_or_none(d.rows[i].vol) ELSE {})

\* df["号数"].map(to_int_or_none)
IssueColumn ==
  Column(LAMBDA d, i :
    IF "issue" \in Cols(d) THEN to_int_or_none(d.rows[i].issue) ELSE {})

\* the keys norm_key(x) of the names x of split_authors(v), for each author cell v
AuthorKeyColumn ==
  Column(LAMBDA d, i :
    IF "author" \in Cols(d)
      THEN {norm_key(x) : x \in Range(split_authors(d.rows[i].author))} ELSE {})

\* norm_key(v) of each cell v of 対象物_top3
TargetColumn ==
  Column(LAMBDA d, i : IF "target" \in Cols(d) THEN norm_key(d.rows[i].target) ELSE <<>>)

\* norm_key(v) of each cell v of 研究タイプ_top3
TypeColumn ==
  Column(LAMBDA d, i : IF "type" \in Cols(d) THEN norm_key(d.rows[i].type) ELSE <<>>)

\* haystack(row) of each row
HaystackColumn == Column(LAMBDA d, i : haystack(d.rows[i]))

\* the column names of each table and the number of its rows
ColsOf == With(Tables, LAMBDA T : [n \in DOMAIN T |-> Cols(T[n])])

RowCount == With(Tables, LAMBDA T : [n \in DOMAIN T |-> Len(T[n].rows)])

\* a faulty year_clause: a row without a year is dropped
year_clause_strict(w, y) == \E v \in y : v >= w.y_from /\ v <= w.y_to

\* (y >= y_from) & (y <= y_to) | y.isna()
year_clause(w, y) == (\E v \in y : v >= w.y_from /\ v <= w.y_to) \/ y = {}

\* a faulty isin: a row without a number passes
isin_or_missing(v, sel) == v = {} \/ v \cap sel # {}

\* .isin(set(vols_sel)), .isin(set(issues_sel))
isin(v, sel) == v \cap sel # {}

\* hit_author(v), on the keys of the names of v
hit_author(w, keys) ==
  \E sel \in {{norm_key(a) : a \in w.authors_sel}} : \E x \in keys : x \in sel

\* any(t in norm_key(v) for t in t_norm), on norm_key(v)
any_in(t_sel, nv) == \E t0 \in t_sel : IsSubstring(norm_key(t0), nv)

\* a faulty hit_kw: the mode is not read, any token is enough
hit_kw_any(w, toks, hs) == \E k \in 1..Len(toks) : IsSubstring(toks[k], hs)

\* hit_kw(row), on haystack(row)
hit_kw(w, toks, hs) ==
  IF w.kw_mode = "AND"
    THEN \A k \in 1..Len(toks) : IsSubstring(toks[k], hs)
    ELSE \E k \in 1..Len(toks) : IsSubstring(toks[k], hs)

\* df = df[mask] where the filter is on, df where it is off
Keep(on, frame, mask(_)) == IF on THEN SelectSeq(frame, mask) ELSE frame

\* apply_filters(df), the widgets holding the values w
apply_filters(n, w0) ==
  With(<<w0, tokens_from_query(w0.kw_query), ColsOf[n]>>, LAMBDA bound :
  LET w == bound[1]
      toks == bound[2]
      cols == bound[3]
      df0 == [k \in 1..RowCount[n] |-> k]
      df1 == Keep("year" \in cols, df0,
                  LAMBDA i : year_clause(w, YearColumn[n][i]))
      df2 == Keep(w.vols_sel # {} /\ "vol" \in cols, df1,
                  LAMBDA i : isin(VolColumn[n][i], w.vols_sel))
      df3 == Keep(w.issues_sel # {} /\ "issue" \in cols, df2,
                  LAMBDA i : isin(IssueColumn[n][i], w.issues_sel))
      df4 == Keep(w.authors_sel # {} /\ "author" \in cols, df3,
                  LAMBDA i : hit_author(w, AuthorKeyColumn[n][i]))
      df5 == Keep(w.targets_sel # {} /\ "target" \in cols, df4,
                  LAMBDA i : any_in(w.targets_sel, TargetColumn[n][i]))
      df6 == Keep(w.types_sel # {} /\ "type" \in cols, df5,
                  LAMBDA i : any_in(w.types_sel, TypeColumn[n][i]))
  IN Keep(toks # <<>>, df6, LAMBDA i : hit_kw(w, toks, HaystackColumn[n][i])))

\* the range the year slider offers, src/app.py 346-350: <<ymin_all, ymax_all>>
\* of each table
SliderRange ==
  With(YearColumn, LAMBDA Y :
    [ n \in DOMAIN Y |->
        With(UNION {Y[n][i] : i \in DOMAIN Y[n]}, LAMBDA year_vals :
          IF year_vals # {}
            THEN << CHOOSE v \in year_vals : \A w \in year_vals : v <= w,
                    CHOOSE v \in year_vals : \A w \in year_vals : v >= w >>
            ELSE <<1980, 2025>>) ])

ymin_all(n) == SliderRange[n][1]

ymax_all(n) == SliderRange[n][2]

\* the candidates of the volume multiselect, src/app.py 359
vol_candidates(n) == With(VolColumn[n], LAMBDA V : UNION {V[i] : i \in DOMAIN V})

----------------------------------------------------------------------------
(* The favourites and tag store, src/app.py 527-647 *)

\* the _row_id column of a table, computed once for each table
RowIdColumn == Column(row_id_of)

RowId(n, i) == RowIdColumn[n][i]

\* the _row_id column of a frame
row_ids(n, frame) == [k \in 1..Len(frame) |-> RowId(n, frame[k])]

\* a faulty fav_disp: of the rows of one _row_id only the first is shown
fav_disp_first(n, fv) ==
  With(RowIdColumn[n], LAMBDA ids :
    SelectSeq([k \in DOMAIN ids |-> k],
              LAMBDA i : ids[i] \in fv /\ \A j \in 1..(i - 1) : ids[j] # ids[i]))

\* fav_disp: the rows of the whole table whose _row_id is favourited
fav_disp(n, fv) ==
  With(RowIdColumn[n], LAMBDA ids :
    SelectSeq([k \in DOMAIN ids |-> k], LAMBDA i : ids[i] \in fv))

\* fav_tags.get(rid, set())
tags_get(tags, rid) == IF rid \in DOMAIN tags THEN tags[rid] ELSE {}

\* a faulty tags_str_for: the tags are joined with a character that
\* parse_tags does not split at
tags_str_for_slash(tags, rid) ==
  IF tags_get(tags, rid) # {}
    THEN Join(Sorted(tags_get(tags, rid)), <<"/">>) ELSE <<>>

\* tags_str_for(rid)
tags_str_for(tags, rid) ==
  IF tags_get(tags, rid) # {}
    THEN Join(Sorted(tags_get(tags, rid)), <<",", " ">>) ELSE <<>>

\* the value a cleared text cell has
None == <<"None">>

\* a faulty parse_tags: the pieces are stripped and the empty ones are kept
parse_tags_keeping_empty(s) ==
  With(ReSplit(IF s = None THEN <<>> ELSE Str(s), QUERY_SPLIT), LAMBDA pieces :
    Range([k \in 1..Len(pieces) |-> Strip(pieces[k])]))

\* parse_tags(s)
parse_tags(s) ==
  With(ReSplit(IF s = None THEN <<>> ELSE Str(s), QUERY_SPLIT), LAMBDA pieces :
    Range(SelectSeq([k \in 1..Len(pieces) |-> Strip(pieces[k])],
                    LAMBDA t : t # <<>>)))

\* the set of _row_id of the rows whose ★ is checked in an edited frame
checked_subset(ids, stars) == {ids[k] : k \in {j \in 1..Len(ids) : stars[j]}}

\* a faulty commit_favs: the unchecked rows of the view stay favourited
commit_favs_adding(fv, ids, stars) == fv \cup checked_subset(ids, stars)

\* a faulty commit_favs: favs is replaced by what is checked in the view
commit_favs_replacing(fv, ids, stars) == checked_subset(ids, stars)

\* favs after a commit: (favs - subset_ids) | checked_subset
commit_favs(fv, ids, stars) == (fv \ Range(ids)) \cup checked_subset(ids, stars)

\* one turn of the loop over fav_edited.iterrows()
tag_row(tags, rid, text) ==
  With(parse_tags(text), LAMBDA tag_set :
    IF tag_set # {}
      THEN [x \in DOMAIN tags \cup {rid} |-> IF x = rid THEN tag_set ELSE tags[x]]
    ELSE IF rid \in DOMAIN tags
      THEN [x \in DOMAIN tags \ {rid} |-> tags[x]]
    ELSE tags)

RECURSIVE commit_tags(_, _, _)
\* the loop over fav_edited.iterrows(), first row first
commit_tags(tags, ids, texts) ==
  IF ids = <<>> THEN tags
  ELSE With(<<tag_row(tags, ids[1], texts[1]), Tail(ids), Tail(texts)>>,
            LAMBDA v : commit_tags(v[1], v[2], v[3]))

----------------------------------------------------------------------------
(* The tag filter of the favourites, src/app.py 653-663.  It reads the store  *)
(* and writes nothing; tag_query and tag_mode are its two widgets.           *)

\* tags: [t.strip() for t in re.split(r"[ ,，、；;　]+", tag_query) if t.strip()]
tag_query_tokens(tag_query) ==
  With(ReSplit(tag_query, QUERY_SPLIT), LAMBDA pieces :
    SelectSeq([k \in 1..Len(pieces) |-> Strip(pieces[k])], LAMBDA t : t # <<>>))

\* a faulty has_tag: a tag matches when the token is a part of it
has_tag_substring(row_tags, t) == \E x \in row_tags : IsSubstring(t, x)

\* t in row_tags
has_tag(row_tags, t) == t \in row_tags

\* match_tags_row(row), for the row of _row_id rid
match_tags_row(tags, rid, toks, tag_mode) ==
  IF tag_mode = "AND"
    THEN \A k \in 1..Len(toks) : has_tag(tags_get(tags, rid), toks[k])
    ELSE \E k \in 1..Len(toks) : has_tag(tags_get(tags, rid), toks[k])

\* fav_disp_for_filter, the favourites the tag filter leaves
fav_disp_for_filter(n, fv, tags, tag_query, tag_mode) ==
  IF Strip(tag_query) # <<>>
    THEN With(tag_query_tokens(tag_query), LAMBDA toks :
           SelectSeq(fav_disp(n, fv),
                     LAMBDA i : match_tags_row(tags, RowId(n, i), toks, tag_mode)))
    ELSE fav_disp(n, fv)

\* what the user may type into the tag filter, and its two modes
TagQueries ==
  { <<>>, <<" ">>, <<",">>, Seishu, <<"sei">>,
    Seishu \o <<"U+3000">> \o Nyusankin,
    <<",", " ">> \o Nyusankin }

TagModes == {"AND", "OR"}

----------------------------------------------------------------------------
(* The two editable tables.  st.data_editor keeps what the user has edited  *)
(* and not yet submitted; the form sends it when its button is pressed.     *)

NoEdits == [stars |-> {}, tags |-> <<>>]

\* disp: the frame of the main table, and its ★ column as displayed
disp == filtered

disp_stars == [k \in 1..Len(disp) |-> RowId(df, disp[k]) \in favs]

\* edited_main["★"]
edited_main == [k \in 1..Len(disp) |-> disp_stars[k] # (k \in main_editor)]

\* the frame of the favourites table and its tags column as displayed
fav_view == fav_disp(df, favs)

fav_shown_tags ==
  [k \in 1..Len(fav_view) |-> tags_str_for(fav_tags, RowId(df, fav_view[k]))]

\* fav_edited["★"] (every row is displayed checked) and fav_edited["tags"]
fav_edited_stars == [k \in 1..Len(fav_view) |-> k \notin fav_editor.stars]

fav_edited_tags ==
  [k \in 1..Len(fav_view) |->
     IF k \in DOMAIN fav_editor.tags THEN fav_editor.tags[k] ELSE fav_shown_tags[k]]

\* the number of cells edited and not yet submitted
Pending(m, f) == Cardinality(m) + Cardinality(f.stars) + Cardinality(DOMAIN f.tags)

----------------------------------------------------------------------------
(* Events.  Every event but an edit of a cell is one rerun of the script. *)

Event(op, view, stars, texts) ==
  [op |-> op, favs0 |-> favs, tags0 |-> fav_tags,
   view |-> view, stars |-> stars, texts |-> texts]

\* the user toggles a ★ of the main table
EditMain(k) ==
  /\ k \in 1..Len(disp)
  /\ main_editor' = IF k \in main_editor THEN main_editor \ {k}
                                           ELSE main_editor \cup {k}
  /\ fav_editor = NoEdits
  /\ Pending(main_editor', fav_editor) <= MaxEdits
  /\ last' = Event("edit", <<>>, <<>>, <<>>)
  /\ UNCHANGED <<df, qvars, filtered, favs, fav_tags, fav_editor>>

\* the user toggles a ★ of the favourites table
EditFavStar(k) ==
  /\ k \in 1..Len(fav_view)
  /\ fav_editor' = [fav_editor EXCEPT !.stars =
                      IF k \in @ THEN @ \ {k} ELSE @ \cup {k}]
  /\ main_editor = {}
  /\ Pending(main_editor, fav_editor') <= MaxEdits
  /\ last' = Event("edit", <<>>, <<>>, <<>>)
  /\ UNCHANGED <<df, qvars, filtered, favs, fav_tags, main_editor>>

\* the user types into a tags cell of the favourites table
EditFavTags(k, text) ==
  /\ k \in 1..Len(fav_view)
  /\ fav_editor' = [fav_editor EXCEPT !.tags =
                      [j \in DOMAIN @ \cup {k} |-> IF j = k THEN text ELSE @[j]]]
  /\ main_editor = {}
  /\ Pending(main_editor, fav_editor') <= MaxEdits
  /\ last' = Event("edit", <<>>, <<>>, <<>>)
  /\ UNCHANGED <<df, qvars, filtered, favs, fav_tags, main_editor>>

\* a faulty commit of the main table: the _row_id are read from the whole
\* table at the positions of the rows of the view, not at their index labels
ApplyMainByPosition ==
  /\ favs' = commit_favs(favs, [k \in 1..Len(disp) |-> RowId(df, k)], edited_main)
  /\ last' = Event("apply_main", disp, edited_main, <<>>)
  /\ main_editor' = {}
  /\ fav_editor' = NoEdits
  /\ UNCHANGED <<df, qvars, filtered, fav_tags>>

\* "チェックした論文をお気に入りリストに追加": the main table's form is submitted
ApplyMain ==
  /\ favs' = commit_favs(favs, row_ids(df, disp), edited_main)
  /\ last' = Event("apply_main", disp, edited_main, <<>>)
  /\ main_editor' = {}
  /\ fav_editor' = NoEdits
  /\ UNCHANGED <<df, qvars, filtered, fav_tags>>

\* a faulty clear-all: only the rows of the main table are removed
ClearDisplayed ==
  /\ favs' = favs \ Range(row_ids(df, disp))
  /\ last' = Event("clear_favs", <<>>, <<>>, <<>>)
  /\ main_editor' = {}
  /\ fav_editor' = NoEdits
  /\ UNCHANGED <<df, qvars, filtered, fav_tags>>

\* a faulty clear-all: the tags go with the favourites
ClearAllAndTags ==
  /\ favs' = {}
  /\ fav_tags' = <<>>
  /\ last' = Event("clear_favs", <<>>, <<>>, <<>>)
  /\ main_editor' = {}
  /\ fav_editor' = NoEdits
  /\ UNCHANGED <<df, qvars, filtered>>

\* "❌ 全て外す"
ClearAll ==
  /\ favs' = {}
  /\ last' = Event("clear_favs", <<>>, <<>>, <<>>)
  /\ main_editor' = {}
  /\ fav_editor' = NoEdits
  /\ UNCHANGED <<df, qvars, filtered, fav_tags>>

\* "お気に入りの変更（★/tags）を更新": the favourites table's form is submitted
ApplyFav ==
  /\ fav_view # <<>>
  /\ favs' = commit_favs(favs, row_ids(df, fav_view), fav_edited_stars)
  /\ fav_tags' = commit_tags(fav_tags, row_ids(df, fav_view), fav_edited_tags)
  /\ last' = Event("apply_fav", fav_view, fav_edited_stars, fav_edited_tags)
  /\ main_editor' = {}
  /\ fav_editor' = NoEdits
  /\ UNCHANGED <<df, qvars, filtered>>

\* the values the filter widgets hold
Widgets ==
  [y_from |-> y_from, y_to |-> y_to, vols_sel |-> vols_sel,
   issues_sel |-> issues_sel, authors_sel |-> authors_sel,
   targets_sel |-> targets_sel, types_sel |-> types_sel,
   kw_query |-> kw_query, kw_mode |-> kw_mode]

\* the widgets as the first run of the script draws them
DefaultWidgets(n) ==
  [y_from |-> SliderRange[n][1], y_to |-> SliderRange[n][2], vols_sel |-> {},
   issues_sel |-> {}, authors_sel |-> {}, targets_sel |-> {}, types_sel |-> {},
   kw_query |-> <<>>, kw_mode |-> "OR"]

\* the number of filter widgets that do not hold their default
Active(n, w) ==
  With(DefaultWidgets(n), LAMBDA d :
    Cardinality({f \in {"y_from", "vols_sel", "issues_sel", "authors_sel",
                        "targets_sel", "types_sel", "kw_query"} : w[f] # d[f]}
                \cup (IF w.y_to # d.y_to THEN {"y_from"} ELSE {})))

\* a faulty rerun: the favourites are initialised without the test
\* "favs" not in st.session_state
RerunResettingFavs(w) ==
  /\ Active(df, w) <= MaxActive
  /\ y_from' = w.y_from
  /\ y_to' = w.y_to
  /\ vols_sel' = w.vols_sel
  /\ issues_sel' = w.issues_sel
  /\ authors_sel' = w.authors_sel
  /\ targets_sel' = w.targets_sel
  /\ types_sel' = w.types_sel
  /\ kw_query' = w.kw_query
  /\ kw_mode' = w.kw_mode
  /\ filtered' = apply_filters(df, w)
  /\ favs' = {}
  /\ last' = Event("filter", <<>>, <<>>, <<>>)
  /\ main_editor' = {}
  /\ fav_editor' = NoEdits
  /\ UNCHANGED <<df, fav_tags>>

\* what every change of a filter widget does: the script reruns with the
\* widgets holding w
Rerun(w) ==
  /\ Active(df, w) <= MaxActive
  /\ y_from' = w.y_from
  /\ y_to' = w.y_to
  /\ vols_sel' = w.vols_sel
  /\ issues_sel' = w.issues_sel
  /\ authors_sel' = w.authors_sel
  /\ targets_sel' = w.targets_sel
  /\ types_sel' = w.types_sel
  /\ kw_query' = w.kw_query
  /\ kw_mode' = w.kw_mode
  /\ filtered' = apply_filters(df, w)
  /\ last' = Event("filter", <<>>, <<>>, <<>>)
  /\ main_editor' = {}
  /\ fav_editor' = NoEdits
  /\ UNCHANGED <<df, favs, fav_tags>>

\* the year slider is moved
SetYearRange(a, b) ==
  /\ \E r \in {SliderRange[df]} : r[1] <= a /\ b <= r[2]
  /\ a <= b
  /\ Rerun([Widgets EXCEPT !.y_from = a, !.y_to = b])

\* the volume multiselect is changed
SetVols(sel) == Rerun([Widgets EXCEPT !.vols_sel = sel])

\* the issue multiselect is changed
SetIssues(sel) == Rerun([Widgets EXCEPT !.issues_sel = sel])

\* the author multiselect is changed
SetAuthors(sel) == Rerun([Widgets EXCEPT !.authors_sel = sel])

\* the target multiselect is changed
SetTargets(sel) == Rerun([Widgets EXCEPT !.targets_sel = sel])

\* the research type multiselect is changed
SetTypes(sel) == Rerun([Widgets EXCEPT !.types_sel = sel])

\* the keyword box is changed
SetKeyword(q) == Rerun([Widgets EXCEPT !.kw_query = q])

\* the AND/OR radio of the keyword box is changed
SetKwMode(m) == Rerun([Widgets EXCEPT !.kw_mode = m])

\* the session as the first run of the script leaves it
Defaults(n) ==
  /\ df = n
  /\ \E w \in {DefaultWidgets(n)} :
       /\ y_from = w.y_from
       /\ y_to = w.y_to
       /\ vols_sel = w.vols_sel
       /\ issues_sel = w.issues_sel
       /\ authors_sel = w.authors_sel
       /\ targets_sel = w.targets_sel
       /\ types_sel = w.types_sel
       /\ kw_query = w.kw_query
       /\ kw_mode = w.kw_mode
       /\ filtered = apply_filters(n, w)
  /\ favs = {}
  /\ fav_tags = <<>>
  /\ main_editor = {}
  /\ fav_editor = NoEdits
  /\ last = [op |-> "init", favs0 |-> {}, tags0 |-> <<>>,
             view |-> <<>>, stars |-> <<>>, texts |-> <<>>]

(* A session: one table, its favourites and tags, the volume filter *)

Init == Defaults("session")

Next ==
  \/ \E k \in 1..RowCount[df] : EditMain(k)
  \/ \E k \in 1..RowCount[df] : EditFavStar(k)
  \/ \E k \in 1..RowCount[df], text \in TagTexts : EditFavTags(k, text)
  \/ ApplyMain
  \/ ApplyFav
  \/ ClearAll
  \/ \E sel \in {{}, {2}} : SetVols(sel)

Spec == Init /\ [][Next]_vars

(* The filter pipeline on its own: every widget, no favourites *)

InitFilter == \E n \in {"years", "corpus"} : Defaults(n)

NextFilter ==
  \/ \E a \in YearStops, b \in YearStops : SetYearRange(a, b)
  \/ \E sel \in VolChoices : SetVols(sel)
  \/ \E sel \in IssueChoices : SetIssues(sel)
  \/ \E sel \in AuthorChoices : SetAuthors(sel)
  \/ \E sel \in TargetChoices : SetTargets(sel)
  \/ \E sel \in TypeChoices : SetTypes(sel)
  \/ \E q \in KwQueries : SetKeyword(q)
  \/ \E m \in {"AND", "OR"} : SetKwMode(m)

SpecFilter == InitFilter /\ [][NextFilter]_vars

(* Tables that lack columns, with and without the summaries side-table *)

\* df.merge(sum_df, on="file_name", how="left"), src/app.py 339-342: pandas
\* raises KeyError when df has no column file_name; the column summary that
\* the merge adds is read by no step of the model
merge_raises(n, has_summaries) == has_summaries /\ "file_name" \notin ColsOf[n]

\* the script stopped by the exception before it drew a widget
Raised(n) ==
  /\ df = n
  /\ \E w \in {DefaultWidgets(n)} :
       /\ y_from = w.y_from
       /\ y_to = w.y_to
       /\ vols_sel = w.vols_sel
       /\ issues_sel = w.issues_sel
       /\ authors_sel = w.authors_sel
       /\ targets_sel = w.targets_sel
       /\ types_sel = w.types_sel
       /\ kw_query = w.kw_query
       /\ kw_mode = w.kw_mode
  /\ filtered = <<>>
  /\ favs = {}
  /\ fav_tags = <<>>
  /\ main_editor = {}
  /\ fav_editor = NoEdits
  /\ last = [op |-> "KeyError", favs0 |-> {}, tags0 |-> <<>>,
             view |-> <<>>, stars |-> <<>>, texts |-> <<>>]

\* the first run of the script on table n; has_summaries: load_summaries
\* returned a table
Load(n, has_summaries) ==
  IF merge_raises(n, has_summaries) THEN Raised(n) ELSE Defaults(n)

\* the script runs: the exception of the merge comes back with every rerun
Running == last.op # "KeyError"

InitColumns ==
  \E n \in {"nofile", "noyear", "bare"}, has_summaries \in BOOLEAN :
    Load(n, has_summaries)

NextColumns ==
  \/ Running /\ \E a \in {1990, 2000}, b \in {2005} : SetYearRange(a, b)
  \/ Running /\ \E sel \in {{}, {1}} : SetVols(sel)
  \/ Running /\ \E sel \in {{}, {1}} : SetIssues(sel)
  \/ Running /\ \E sel \in {{}, {<<"b">>}} : SetAuthors(sel)
  \/ Running /\ \E sel \in {{}, {Koubo}} : SetTargets(sel)
  \/ Running /\ \E sel \in {{}, {<<"b">>}} : SetTypes(sel)
  \/ Running /\ \E q \in {<<>>, Seishu} : SetKeyword(q)
  \/ Running /\ \E m \in {"AND", "OR"} : SetKwMode(m)
  \/ Running /\ \E k \in 1..RowCount[df] : EditMain(k)
  \/ Running /\ ApplyMain
  \/ Running /\ ClearAll

SpecColumns == InitColumns /\ [][NextColumns]_vars

(* A session with every widget: the eight of the filter, the two tables,   *)
(* their commits, the clear-all button and the tag filter                   *)

\* the tag filter is changed: the script reruns with the filter widgets as
\* they are, and the expander shows fav_disp_for_filter; the tables of the
\* two editors are drawn from the same data, their pending edits stay
SetTagQuery(tag_query, tag_mode) ==
  /\ last' = Event("tag_filter",
                   fav_disp_for_filter(df, favs, fav_tags, tag_query, tag_mode),
                   <<>>, <<>>)
  /\ UNCHANGED <<df, qvars, filtered, favs, fav_tags, main_editor, fav_editor>>

\* the tag typed into a tags cell, twice
SessionTagText == Seishu \o <<" ">> \o Seishu

InitSession == Defaults("nofile")

NextSession ==
  \/ \E a \in {1990, 2000}, b \in {2005} : SetYearRange(a, b)
  \/ \E sel \in {{}, {1}} : SetVols(sel)
  \/ \E sel \in {{}, {1}} : SetIssues(sel)
  \/ \E sel \in {{}, {<<"b">>}} : SetAuthors(sel)
  \/ \E sel \in {{}, {Koubo}} : SetTargets(sel)
  \/ \E sel \in {{}, {<<"b">>}} : SetTypes(sel)
  \/ \E q \in {<<>>, Seishu} : SetKeyword(q)
  \/ \E m \in {"AND", "OR"} : SetKwMode(m)
  \/ \E q \in {Seishu}, m \in TagModes : SetTagQuery(q, m)
  \/ \E k \in 1..RowCount[df] : EditMain(k)
  \/ \E k \in 1..RowCount[df] : EditFavStar(k)
  \/ \E k \in 1..RowCount[df] : EditFavTags(k, SessionTagText)
  \/ ApplyMain
  \/ ApplyFav
  \/ ClearAll

SpecSession == InitSession /\ [][NextSession]_vars

(* A session on a table of two records whose tags cells take, besides the  *)
(* texts of TagTexts, a text with white space that is no separator and the *)
(* value of a cleared cell                                                 *)

\* "\ta b  b", its tags are "a b" and "b"
TabbedTagText == <<"\t", "a", "U+00A0", "b", "U+00A0", " ", "b">>

TagCellValues == TagTexts \cup {TabbedTagText, None}

InitTags == Defaults("nofile")

NextTags ==
  \/ \E k \in 1..RowCount[df] : EditMain(k)
  \/ \E k \in 1..RowCount[df] : EditFavStar(k)
  \/ \E k \in 1..RowCount[df], text \in TagCellValues : EditFavTags(k, text)
  \/ ApplyMain
  \/ ApplyFav
  \/ ClearAll
  \/ \E sel \in {{}, {1}} : SetVols(sel)

SpecTags == InitTags /\ [][NextTags]_vars

(* The functions that draw the lists of the widgets, each applied to inputs *)
(* of its own; last holds the function applied, its argument and its result. *)
(* A list depends on nothing but the data of the run that draws it, so the   *)
(* model draws each in the run that follows the load.                        *)

\* authors_all = build_author_candidates(df), src/app.py 469
BuildAuthorCandidates(col) ==
  /\ last.op = "init"
  /\ last' = [op |-> "build_author_candidates", arg |-> col,
              ret |-> build_author_candidates(col)]
  /\ UNCHANGED <<df, qvars, filtered, favs, fav_tags, main_editor, fav_editor>>

\* targets_all = order_by_template(list(raw_targets), TARGET_ORDER), src/app.py 372
OrderByTemplate(values) ==
  /\ last.op = "init"
  /\ last' = [op |-> "order_by_template", arg |-> values,
              ret |-> order_by_template(values, TARGET_ORDER)]
  /\ UNCHANGED <<df, qvars, filtered, favs, fav_tags, main_editor, fav_editor>>

InitLists == Defaults("session")

\* options_readings: the readings of cand after sort_values, src/app.py 452-459,
\* the initial すべて selected
SortReadings(col) ==
  /\ last.op = "init"
  /\ last' = [op |-> "sort_values", arg |-> col, ret |-> sort_values(col)]
  /\ UNCHANGED <<df, qvars, filtered, favs, fav_tags, main_editor, fav_editor>>

NextLists ==
  \/ \E col \in AuthorColumns : BuildAuthorCandidates(col)
  \/ \E values \in ObservedValues : OrderByTemplate(values)
  \/ \E col \in ReadingColumns : SortReadings(col)

SpecLists == InitLists /\ [][NextLists]_vars

----------------------------------------------------------------------------
(* The favourites and the tag store: what a commit does.  last holds the    *)
(* event of the last rerun: favs0 and tags0 are the store before it, view,  *)
(* stars and texts the frame, ★ column and tags column that were submitted. *)

\* the _row_id of the rows of the submitted view
last_ids == row_ids(df, last.view)

\* displayedSet and checkedSet of the submitted view
displayedSet == Range(last_ids)

checkedSet == {last_ids[k] : k \in {j \in 1..Len(last_ids) : last.stars[j]}}

\* the rows of the table the favourites view shows for a set of favourites
ShownAsFavourite(fv) == Range(fav_disp(df, fv))

\* C1: every commit of favourite toggles, from the main table or from the
\* favourites table, leaves favs = (favs before - displayedSet) | checkedSet
C1_ToggleCommit ==
  last.op \in {"apply_main", "apply_fav"} =>
    favs = (last.favs0 \ displayedSet) \cup checkedSet

\* a commit from the filtered main table that keeps a hidden favourite, drops
\* an unchecked row of the view and adds a checked one
C1_ToggleCommitWitness ==
  /\ last.op = "apply_main"
  /\ last.favs0 \ displayedSet # {}
  /\ (last.favs0 \cap displayedSet) \ checkedSet # {}
  /\ checkedSet \ last.favs0 # {}
  /\ favs = (last.favs0 \ displayedSet) \cup checkedSet

\* C2 (as amended): a commit of favourite toggles leaves the favourited status,
\* as the favourites view shows it, of every row whose _row_id is not a
\* _row_id of the submitted view as it was; a filter change or an edit of a
\* cell changes no status at all
C2_HiddenRowsKeepStatus ==
  /\ last.op \in {"apply_main", "apply_fav"} =>
       \A i \in 1..RowCount[df] :
         RowId(df, i) \notin displayedSet =>
           (i \in ShownAsFavourite(favs) <=> i \in ShownAsFavourite(last.favs0))
  /\ last.op \in {"filter", "edit"} => favs = last.favs0

\* a commit from a filtered main table that changes the favourites and keeps
\* a favourited row the filter hides
C2_HiddenRowsKeepStatusWitness ==
  /\ last.op = "apply_main"
  /\ favs # last.favs0
  /\ \E i \in 1..RowCount[df] :
       /\ i \notin Range(last.view)
       /\ RowId(df, i) \notin displayedSet
       /\ i \in ShownAsFavourite(last.favs0)
       /\ i \in ShownAsFavourite(favs)

\* C2 (as stated): a commit of favourite toggles leaves the favourited status
\* of every row that is not a row of the submitted view as it was
C2_HiddenRowsKeepStatusAsStated ==
  last.op \in {"apply_main", "apply_fav"} =>
    \A i \in 1..RowCount[df] :
      i \notin Range(last.view) =>
        (i \in ShownAsFavourite(favs) <=> i \in ShownAsFavourite(last.favs0))

\* C3: after a commit of the favourites table, for each row of the view the
\* set parsed from its tags text is the entry of its _row_id when the set is
\* not empty, the _row_id has no entry when it is empty, and the entries of
\* the _row_id that are not in the view are as they were
C3_TagTextCommit ==
  last.op = "apply_fav" =>
    /\ \A k \in 1..Len(last_ids) :
         IF parse_tags(last.texts[k]) # {}
           THEN /\ last_ids[k] \in DOMAIN fav_tags
                /\ fav_tags[last_ids[k]] = parse_tags(last.texts[k])
           ELSE last_ids[k] \notin DOMAIN fav_tags
    /\ \A rid \in (DOMAIN last.tags0 \cup DOMAIN fav_tags) \ displayedSet :
         /\ rid \in DOMAIN last.tags0 \cap DOMAIN fav_tags
         /\ fav_tags[rid] = last.tags0[rid]

\* C4: clear-all leaves favs empty and fav_tags as it was, whatever the state
C4_ClearAll ==
  last.op = "clear_favs" => favs = {} /\ fav_tags = last.tags0

\* clear-all pressed with favourites, one of them hidden by the filter, and
\* tags in the store
C4_ClearAllWitness ==
  /\ last.op = "clear_favs"
  /\ last.favs0 \ Range(row_ids(df, disp)) # {}
  /\ last.tags0 # <<>>
  /\ favs = {}
  /\ fav_tags = last.tags0

\* the submitted view has a row of _row_id rid whose tags text was edited
tags_edited(rid) ==
  /\ last.op = "apply_fav"
  /\ \E k \in 1..Len(last_ids) :
       last_ids[k] = rid /\ last.texts[k] # tags_str_for(last.tags0, rid)

\* the submitted view has a row of _row_id rid whose tags text parses to nothing
tags_emptied(rid) ==
  /\ last.op = "apply_fav"
  /\ \E k \in 1..Len(last_ids) :
       last_ids[k] = rid /\ parse_tags(last.texts[k]) = {}

\* C5: no event but a commit of an edited tags text of a _row_id changes its
\* entry of fav_tags, so un-favouriting it (in the main table, in the
\* favourites table, by clear-all) keeps the entry; an entry leaves fav_tags
\* only by a commit of a tags text that parses to nothing; and the favourites
\* view shows, for a favourited row, the tags of its entry
C5_TagsSurviveUnfavouriting ==
  /\ \A rid \in DOMAIN last.tags0 :
       ~tags_edited(rid) => rid \in DOMAIN fav_tags /\ fav_tags[rid] = last.tags0[rid]
  /\ \A rid \in DOMAIN last.tags0 \ DOMAIN fav_tags : tags_emptied(rid)
  /\ \A k \in 1..Len(fav_view) :
       parse_tags(fav_shown_tags[k]) = tags_get(fav_tags, RowId(df, fav_view[k]))

\* a row that had been un-favourited with its tags is favourited again from
\* the main table, and the favourites view shows it with its tags
C5_TagsSurviveUnfavouritingWitness ==
  /\ last.op = "apply_main"
  /\ \E k \in 1..Len(fav_view) :
       /\ RowId(df, fav_view[k]) \in favs \ last.favs0
       /\ RowId(df, fav_view[k]) \in DOMAIN fav_tags
       /\ fav_tags[RowId(df, fav_view[k])] = last.tags0[RowId(df, fav_view[k])]
       /\ parse_tags(fav_shown_tags[k]) = fav_tags[RowId(df, fav_view[k])]

\* the stored tag set of a row, empty when its _row_id has no entry
stored_tags(i) ==
  IF RowId(df, i) \in DOMAIN fav_tags THEN fav_tags[RowId(df, i)] ELSE {}

\* C6: for a tag query with tokens the tag filter shows, in the order of the
\* table, exactly the favourited rows whose stored tag set has every token as
\* an element (AND) or at least one (OR), a row without an entry having the
\* empty set; for every query it shows favourited rows only
C6_TagFilter ==
  \A q \in TagQueries, m \in TagModes :
    LET toks == Range(tag_query_tokens(q))
        res == fav_disp_for_filter(df, favs, fav_tags, q, m)
    IN /\ \A k \in 1..Len(res) : RowId(df, res[k]) \in favs
       /\ \A j, k \in 1..Len(res) : j < k => res[j] < res[k]
       /\ toks # {} =>
            Range(res) =
              {i \in 1..RowCount[df] :
                 /\ RowId(df, i) \in favs
                 /\ IF m = "AND" THEN toks \subseteq stored_tags(i)
                                 ELSE toks \cap stored_tags(i) # {}}

\* three kinds of favourited rows, with both tags, with one and with none:
\* AND and OR differ, OR leaves a row out, and 清 does not find the tag 清酒
C6_TagFilterWitness ==
  LET both == Seishu \o <<"U+3000">> \o Nyusankin
      res_and == fav_disp_for_filter(df, favs, fav_tags, both, "AND")
      res_or == fav_disp_for_filter(df, favs, fav_tags, both, "OR")
  IN /\ res_and # <<>>
     /\ Len(res_and) < Len(res_or)
     /\ Len(res_or) < Len(fav_view)
     /\ fav_disp_for_filter(df, favs, fav_tags, <<"sei">>, "OR") = <<>>

\* C7: a keyword query or a tag query without tokens filters nothing: the
\* result is the one of the empty query, in AND mode and in OR mode
C7_NoTokensNoConstraint ==
  /\ \A q \in TagQueries, m \in TagModes :
       tag_query_tokens(q) = <<>> =>
         fav_disp_for_filter(df, favs, fav_tags, q, m)
           = fav_disp_for_filter(df, favs, fav_tags, <<>>, m)
  /\ tokens_from_query(kw_query) = <<>> =>
       filtered = apply_filters(df, [Widgets EXCEPT !.kw_query = <<>>])

----------------------------------------------------------------------------
(* The filter pipeline: what filtered holds for the values of the widgets *)

\* every filter but the year slider is empty
OnlyYear ==
  /\ vols_sel = {}
  /\ issues_sel = {}
  /\ authors_sel = {}
  /\ targets_sel = {}
  /\ types_sel = {}
  /\ tokens_from_query(kw_query) = <<>>

\* the year of row i is unparsable, or it is a number of [y_from, y_to]
YearPasses(i) ==
  \/ to_numeric(Cell(Tables[df], i, "year")) = {}
  \/ \E y \in to_numeric(Cell(Tables[df], i, "year")) : y_from <= y /\ y <= y_to

\* C8: a row whose year is unparsable passes the year filter for every range,
\* a row whose year is the number y passes iff y_from <= y <= y_to; of the
\* three rows of years 1990, 2005 and NA, with a range from 2000 that reaches
\* 2005 (the slider of this table ends there) and every other filter empty,
\* exactly the rows of 2005 and NA pass
C8_YearFilter ==
  /\ \A k \in 1..Len(filtered) : YearPasses(filtered[k])
  /\ OnlyYear => Range(filtered) = {i \in 1..RowCount[df] : YearPasses(i)}
  /\ (df = "years" /\ OnlyYear /\ y_from = 2000 /\ y_to >= 2005) =>
       filtered = <<2, 3>>

\* the three rows of years 1990, 2005 and NA filtered from 2000 to 2005
C8_YearFilterWitness ==
  /\ df = "years"
  /\ OnlyYear
  /\ y_from = 2000
  /\ y_to = 2005
  /\ filtered = <<2, 3>>

\* the keyword query 清酒　乳酸菌
SeishuNyusankin == Seishu \o <<"U+3000">> \o Nyusankin

SatisfiesQuery(i) ==
  LET d == Tables[df]
      toks == tokens_from_query(kw_query)
      hs == haystack(d.rows[i])
  IN /\ "year" \in Cols(d) => YearPasses(i)
     /\ (vols_sel # {} /\ "vol" \in Cols(d)) =>
          \E v \in to_int_or_none(Cell(d, i, "vol")) : v \in vols_sel
     /\ (issues_sel # {} /\ "issue" \in Cols(d)) =>
          \E v \in to_int_or_none(Cell(d, i, "issue")) : v \in issues_sel
     /\ (authors_sel # {} /\ "author" \in Cols(d)) =>
          \E x \in Range(split_authors(Cell(d, i, "author"))), a \in authors_sel :
            norm_key(x) = norm_key(a)
     /\ (targets_sel # {} /\ "target" \in Cols(d)) =>
          \E t \in targets_sel : IsSubstring(norm_key(t), norm_key(Cell(d, i, "target")))
     /\ (types_sel # {} /\ "type" \in Cols(d)) =>
          \E t \in types_sel : IsSubstring(norm_key(t), norm_key(Cell(d, i, "type")))
     /\ toks # <<>> =>
          IF kw_mode = "AND"
            THEN \A k \in 1..Len(toks) : IsSubstring(toks[k], hs)
            ELSE \E k \in 1..Len(toks) : IsSubstring(toks[k], hs)

\* C10: filtered is the rows of the table that satisfy every active clause, in
\* the order of the table and each once; an empty selection or token sequence
\* is no clause, so with all of them empty only the year reduces the result
C10_FilterComposition ==
  /\ \A j, k \in 1..Len(filtered) : j < k => filtered[j] < filtered[k]
  /\ Range(filtered) = {i \in 1..RowCount[df] : SatisfiesQuery(i)}
  /\ OnlyYear => Range(filtered) = {i \in 1..RowCount[df] : YearPasses(i)}

\* a year range, a volume selection and a keyword query narrow the table
\* together and leave some rows
C10_FilterCompositionWitness ==
  /\ <<y_from, y_to>> # <<ymin_all(df), ymax_all(df)>>
  /\ vols_sel # {}
  /\ tokens_from_query(kw_query) # <<>>
  /\ filtered # <<>>
  /\ \E i \in 1..RowCount[df] : i \notin Range(filtered) /\ YearPasses(i)

----------------------------------------------------------------------------
(* The volume and issue filters *)

\* the integer a volume or issue cell stands for, {} when it has none: the
\* whole trimmed cell when it is a number, else the first run of digits
ExtractInt(cell) ==
  LET s == Str(cell)
      t == Strip(s)
      ds == {i \in 1..Len(s) : s[i] \in Digits}
      p == CHOOSE i \in ds : \A j \in ds : i <= j
      q == CHOOSE j \in p..Len(s) :
             /\ \A k \in p..j : s[k] \in Digits
             /\ j = Len(s) \/ s[j + 1] \notin Digits
  IN IF t # <<>> /\ \A i \in 1..Len(t) : t[i] \in Digits THEN {NumVal(t)}
     ELSE IF ds = {} THEN {}
     ELSE {NumVal(SubSeq(s, p, q))}

\* the rows the pipeline keeps with field f of the widgets emptied
WithoutClause(f) == Range(apply_filters(df, [Widgets EXCEPT ![f] = {}]))

\* C11: with a volume (issue) selection, the rows kept are the rows that pass
\* the other clauses and whose cell stands for an integer of the selection:
\* the whole trimmed cell read as an integer, else its first run of digits; a
\* row whose cell has no integer is left out; with an empty selection the
\* clause leaves out no row, whatever its cell
C11_VolumeIssueFilter ==
  /\ vols_sel # {} =>
       Range(filtered) =
         {i \in WithoutClause("vols_sel") :
            ExtractInt(Cell(Tables[df], i, "vol")) \cap vols_sel # {}}
  /\ issues_sel # {} =>
       Range(filtered) =
         {i \in WithoutClause("issues_sel") :
            ExtractInt(Cell(Tables[df], i, "issue")) \cap issues_sel # {}}
  /\ vols_sel = {} =>
       \A sel \in VolChoices :
         Range(apply_filters(df, [Widgets EXCEPT !.vols_sel = sel]))
           \subseteq Range(filtered)
  /\ issues_sel = {} =>
       \A sel \in IssueChoices :
         Range(apply_filters(df, [Widgets EXCEPT !.issues_sel = sel]))
           \subseteq Range(filtered)
  /\ (df = "corpus" /\ Active(df, Widgets) = 0) => 5 \in Range(filtered)
  /\ (df = "corpus" /\ vols_sel = {1, 2} /\ Active(df, Widgets) = 1) =>
       filtered = <<1, 2, 3, 4, 6, 7>>

\* the volumes 1 and 2 are selected: the row of volume "a2b1" and the row of
\* volume " 1" are kept, the row without a volume is left out
C11_VolumeIssueFilterWitness ==
  /\ df = "corpus"
  /\ vols_sel = {1, 2}
  /\ {6, 7} \subseteq Range(filtered)
  /\ 5 \notin Range(filtered)
  /\ ExtractInt(Cell(Tables[df], 5, "vol")) = {}

----------------------------------------------------------------------------
(* The target and research type filters *)

\* the text of a cell of a record, a missing cell being empty
CellText(cell) == IF cell = NaN THEN <<>> ELSE cell

\* a token of sel, normalised, is a part of the normalised cell
PartialMatch(sel, cell) ==
  \E t \in sel : IsSubstring(norm_key(t), norm_key(CellText(cell)))

\* C12: with a target (research type) selection, the rows kept are the rows
\* that pass the other clauses and whose normalised target (type) cell has the
\* normalised form of a selected token as a part of it, a missing cell having
\* no text; the match is partial, so a token matches a cell that holds it
\* among other tokens
C12_PartialMatch ==
  /\ targets_sel # {} =>
       Range(filtered) =
         {i \in WithoutClause("targets_sel") :
            PartialMatch(targets_sel, Cell(Tables[df], i, "target"))}
  /\ types_sel # {} =>
       Range(filtered) =
         {i \in WithoutClause("types_sel") :
            PartialMatch(types_sel, Cell(Tables[df], i, "type"))}

----------------------------------------------------------------------------
(* The author filter *)

\* the names of an author cell: the cell split at the separators of
\* AUTHOR_SPLIT, never at white space; a missing cell has no name
Names(cell) == Range(split_authors(CellText(cell)))

\* the key of name x is the key of a selected author
AuthorMatch(sel, cell) ==
  \E x \in Names(cell), a \in sel : norm_key(x) = norm_key(a)

\* C13: with an author selection, the rows kept are the rows that pass the
\* other clauses and whose author cell, split at the separators only, has a
\* name whose key (white space collapsed, lower case) is the key of a selected
\* author; names that differ in case or in runs of white space match
C13_AuthorFilter ==
  authors_sel # {} =>
    Range(filtered) =
      {i \in WithoutClause("authors_sel") :
         AuthorMatch(authors_sel, Cell(Tables[df], i, "author"))}

----------------------------------------------------------------------------
(* The row identity in the two views *)

\* the RowId of a record of the dataset, from its No., title and year cells
ExpectedRowId(rec) ==
  LET id == Strip(Str(rec.No))
  IN IF id # <<>> /\ Lower(id) \notin {<<"n", "o", "n", "e">>, <<"n", "a", "n">>}
       THEN <<"N", "O", ":">> \o id
       ELSE <<"T", ":">> \o Strip(Str(rec.title))
              \o <<"|", "Y", ":">> \o Strip(Str(rec.year))

\* C14: the _row_id of a row of the main table and of a row of the favourites
\* table is NO: and the No. of its record when that is not empty, none or
\* nan, else T:, the title, |Y: and the year; a record has the same _row_id in
\* both tables whatever the filter: the rows of the main table shown as
\* favourites are those of the favourites table, and a row checked and
\* submitted in the main table is a row of the favourites table
C14_RowIdAcrossViews ==
  /\ \A k \in 1..Len(disp) :
       row_ids(df, disp)[k] = ExpectedRowId(Tables[df].rows[disp[k]])
  /\ \A k \in 1..Len(fav_view) :
       row_ids(df, fav_view)[k] = ExpectedRowId(Tables[df].rows[fav_view[k]])
  /\ \A k \in 1..Len(disp) : disp_stars[k] <=> disp[k] \in Range(fav_view)
  /\ last.op = "apply_main" =>
       \A k \in 1..Len(last.view) :
         last.stars[k] => last.view[k] \in Range(fav_view)
  /\ df = "session" =>
       /\ RowId(df, 1) = <<"N", "O", ":", "1">>
       /\ RowId(df, 3) = <<"T", ":", "b", "|", "Y", ":", "2", "0", "0", "5">>

\* under the volume filter a row with a No. and a row without one are checked
\* and submitted in the main table, and both are rows of the favourites table
C14_RowIdAcrossViewsWitness ==
  /\ vols_sel = {2}
  /\ last.op = "apply_main"
  /\ last.view = <<2, 3>>
  /\ last.stars = <<TRUE, TRUE>>
  /\ {2, 3} \subseteq Range(fav_view)

----------------------------------------------------------------------------
(* Records of one RowId *)

\* the pairs of distinct records of the table that have the same RowId
Collisions ==
  {p \in (1..RowCount[df]) \X (1..RowCount[df]) :
     /\ p[1] # p[2]
     /\ ExpectedRowId(Tables[df].rows[p[1]]) = ExpectedRowId(Tables[df].rows[p[2]])}

\* C15: two records of the same RowId (no No., the same title and year) are
\* favourites together and have the same tags in every reachable state: both
\* or none are rows of the favourites table, their ★ in the main table and
\* their tags in the favourites table are the same, and checking one of them
\* in a submitted main table makes both favourites, the other one hidden by
\* the filter or not
C15_CollidingRecords ==
  \A p \in Collisions :
    /\ p[1] \in Range(fav_view) <=> p[2] \in Range(fav_view)
    /\ \A k, l \in 1..Len(disp) :
         (disp[k] = p[1] /\ disp[l] = p[2]) => disp_stars[k] = disp_stars[l]
    /\ \A k, l \in 1..Len(fav_view) :
         (fav_view[k] = p[1] /\ fav_view[l] = p[2]) =>
           fav_shown_tags[k] = fav_shown_tags[l]
    /\ (/\ last.op = "apply_main"
        /\ \E k \in 1..Len(last.view) : last.view[k] = p[1] /\ last.stars[k]) =>
         {p[1], p[2]} \subseteq Range(fav_view)

\* the favourites table was submitted with tags and the two records of one
\* RowId are both favourites with the same tags
C15_CollidingRecordsWitness ==
  /\ last.op = "apply_fav"
  /\ Collisions # {}
  /\ \E p \in Collisions :
       \E k, l \in 1..Len(fav_view) :
         /\ fav_view[k] = p[1]
         /\ fav_view[l] = p[2]
         /\ fav_shown_tags[k] # <<>>
         /\ fav_shown_tags[k] = fav_shown_tags[l]

----------------------------------------------------------------------------
(* Tables that lack columns *)

\* the clause of a filter widget reads a column the table does not have
ClauseOnAbsentColumn ==
  [ vols_sel |-> "vol", issues_sel |-> "issue", authors_sel |-> "author",
    targets_sel |-> "target", types_sel |-> "type" ]

\* C16: on a table that lacks any of the known columns every step of the
\* script completes: no run is stopped by an exception, the join of the
\* summaries on file_name included; a filter clause on a column the table
\* lacks leaves out no row, every row has a RowId, and the favourites table
\* has the rows of the favourited RowIds
C16_MissingColumns ==
  /\ Running
  /\ \A f \in DOMAIN ClauseOnAbsentColumn :
       ClauseOnAbsentColumn[f] \notin ColsOf[df] =>
         Range(filtered) = WithoutClause(f)
  /\ "year" \notin ColsOf[df] =>
       \A a \in {1990, 2000} :
         filtered = apply_filters(df, [Widgets EXCEPT !.y_from = a])
  /\ \A i \in 1..RowCount[df] : Len(RowId(df, i)) >= 4
  /\ Range(fav_view) = {i \in 1..RowCount[df] : RowId(df, i) \in favs}

----------------------------------------------------------------------------
(* The author candidates *)

\* the first name of the column, cell by cell and left to right in a cell,
\* whose key is k
FirstOfKey(col, k) ==
  LET names == names_of_column(col, 1)
      p == CHOOSE i \in 1..Len(names) :
             /\ norm_key(names[i]) = k
             /\ \A j \in 1..(i - 1) : norm_key(names[j]) # k
  IN names[p]

\* C17: the list build_author_candidates returns for a column of author cells
\* has no two entries of the same key, each entry is the first name of its
\* key in the column, every key of a name of the column has its entry, and
\* the entries ascend by their keys
C17_AuthorCandidates ==
  last.op = "build_author_candidates" =>
    LET out == last.ret
        keys == {norm_key(x) : x \in Range(names_of_column(last.arg, 1))}
    IN /\ \A i, j \in 1..Len(out) : i # j => norm_key(out[i]) # norm_key(out[j])
       /\ \A i \in 1..Len(out) : out[i] = FirstOfKey(last.arg, norm_key(out[i]))
       /\ {norm_key(out[i]) : i \in 1..Len(out)} = keys
       /\ <<>> \notin keys
       /\ \A i, j \in 1..Len(out) :
            i < j => StrLess(norm_key(out[i]), norm_key(out[j]))

\* the column B | a b | A  B;b: the candidates are a b and B, in the order of
\* their keys a b and b, each the first form of its key
C17_AuthorCandidatesWitness ==
  /\ last.op = "build_author_candidates"
  /\ last.arg = << <<" ", "B", " ", ",", ",">>, <<"a", " ", "b">>,
                   <<"A", " ", " ", "B", ";", "b">> >>
  /\ last.ret = << <<"a", " ", "b">>, <<"B">> >>

----------------------------------------------------------------------------
(* The order of a category list *)

\* the part of the result a value belongs to: 1 an entry of the template that
\* is not a その他, 2 a value the template lacks that is not a その他, 3 a その他
\* of the template, 4 any other その他
PartOf(v, template) ==
  IF IsSubstring(<<"so", "no", "ta">>, v)
    THEN IF v \in Range(template) THEN 3 ELSE 4
    ELSE IF v \in Range(template) THEN 1 ELSE 2

\* the position of an entry in the template
PlaceIn(template, v) == CHOOSE k \in 1..Len(template) : template[k] = v

\* C18: order_by_template(observed, template) lists every observed value once:
\* first the entries of the template that are observed and are not a その他,
\* in the order of the template, then the observed values the template lacks
\* that are not a その他, in alphabetical order, then the observed その他 of
\* the template, then the other observed その他; every その他 comes after
\* every other value, and 清酒, 新物質, その他A comes back as it is
C18_OrderByTemplate ==
  last.op = "order_by_template" =>
    LET out == last.ret
        part(k) == PartOf(out[k], TARGET_ORDER)
    IN /\ Range(out) = Range(last.arg)
       /\ \A i, j \in 1..Len(out) : i < j =>
            /\ out[i] # out[j]
            /\ part(i) <= part(j)
            /\ (part(i) = part(j) /\ part(i) \in {1, 3}) =>
                 PlaceIn(TARGET_ORDER, out[i]) < PlaceIn(TARGET_ORDER, out[j])
            /\ (part(i) = 2 /\ part(j) = 2) => StrLess(out[i], out[j])
            /\ part(i) >= 3 => part(j) >= 3
       /\ last.arg = <<Seishu, Shinbusshitsu, Sonota \o <<"A">> >> =>
            out = last.arg

\* その他A, 新物質 and ビール come back as ビール, 新物質, その他A
C18_OrderByTemplateWitness ==
  /\ last.op = "order_by_template"
  /\ last.arg = <<Sonota \o <<"A">>, Shinbusshitsu, Biiru>>
  /\ last.ret = <<Biiru, Shinbusshitsu, Sonota \o <<"A">> >>

----------------------------------------------------------------------------
(* The order of the readings *)

\* the class of a reading by its leading character: 0 a kana of the syllabary
\* table, 1 a Katakana, 2 a Roman letter, 3 anything else
ReadingClass(r) ==
  IF r # <<>> /\ r[1] \in Range(AIUEO_ORDER) THEN 0
  ELSE IF r # <<>> /\ r[1] \in {"U+30A2", "BI", "RU", "--"} THEN 1
  ELSE IF r # <<>> /\ r[1] \in {"A", "B", "a", "b"} THEN 2
  ELSE 3

\* C19: the readings are listed by the class of their leading character: the
\* kana of the syllabary table first, in the order of the table, then the
\* Katakana, then the Roman letters, compared without their case, and last,
\* after every Roman letter, the readings that lead with anything else (a
\* digit, a kanji, a kana the table lacks)
C19_ReadingOrder ==
  last.op = "sort_values" =>
    LET out == last.ret
    IN /\ Range(out) = Range(last.arg)
       /\ \A i, j \in 1..Len(out) : i < j =>
            /\ ReadingClass(out[i]) <= ReadingClass(out[j])
            /\ (ReadingClass(out[i]) = 0 /\ ReadingClass(out[j]) = 0) =>
                 find(AIUEO_ORDER, out[i][1]) <= find(AIUEO_ORDER, out[j][1])
            /\ (ReadingClass(out[i]) = 2 /\ ReadingClass(out[j]) = 2) =>
                 ~StrLess(<<LowerChar(out[j][1])>>, <<LowerChar(out[i][1])>>)

----------------------------------------------------------------------------
(* The lifecycle of the favourites and their tags *)

\* the events that write st.session_state.favs or st.session_state.fav_tags
Commits == {"apply_main", "apply_fav", "clear_favs"}

\* C20: favs and fav_tags are both empty when the session starts; a step
\* changes one of them only when it is the commit of the main table, the
\* commit of the favourites table or the clear-all; a rerun that a filter
\* widget or the tag filter causes, and an edit of a cell that is not yet
\* submitted, leave both as they are.
C20_FavoritesLifecycle ==
  /\ favs = {} /\ fav_tags = <<>>
  /\ [][ /\ (favs' # favs \/ fav_tags' # fav_tags) => last'.op \in Commits
         /\ last'.op \in {"filter", "tag_filter", "edit"}
              => favs' = favs /\ fav_tags' = fav_tags ]_vars

\* a filter widget narrowed the main table while favourites and tags are kept
C20_FavoritesLifecycleWitness ==
  /\ last.op = "filter"
  /\ Len(filtered) < RowCount[df]
  /\ favs # {}
  /\ fav_tags # <<>>
  /\ last.favs0 = favs
  /\ last.tags0 = fav_tags

----------------------------------------------------------------------------
(* The shape of the tag store *)

\* a tag as parse_tags leaves it: not empty, no separator of the class
\* [ ,，、；;　] in it
IsTag(t) == t # <<>> /\ \A i \in 1..Len(t) : t[i] \notin QUERY_SPLIT

\* C21: whatever commits, clear-alls and filter changes came before, every
\* entry of fav_tags is a set that is not empty, and every tag of it is a
\* string that is not empty and holds no separator of the tag-splitting class;
\* a _row_id without tags has no entry.
C21_TagStoreShape ==
  \A rid \in DOMAIN fav_tags :
    fav_tags[rid] # {} /\ \A t \in fav_tags[rid] : IsTag(t)

\* a commit of the favourites table that stores the two tags of a text with a
\* tab and no-break spaces, and takes away the entry of a row whose cell was
\* cleared or left with separators only
C21_TagStoreShapeWitness ==
  /\ last.op = "apply_fav"
  /\ \E k \in 1..Len(last.view) :
       /\ last.texts[k] = TabbedTagText
       /\ fav_tags[RowId(df, last.view[k])] = {<<"a", "U+00A0", "b">>, <<"b">>}
  /\ \E k \in 1..Len(last.view) :
       /\ parse_tags(last.texts[k]) = {}
       /\ RowId(df, last.view[k]) \in DOMAIN last.tags0 \ DOMAIN fav_tags

----------------------------------------------------------------------------
(* Submitting the favourites table as it is displayed *)

\* the favourites table was submitted with every ★ and every tags text as
\* the script had displayed them
SubmittedUnedited ==
  /\ last.op = "apply_fav"
  /\ \A k \in 1..Len(last_ids) :
       /\ last.stars[k]
       /\ last.texts[k] = tags_str_for(last.tags0, last_ids[k])

\* C22: the tags text displayed for an entry of fav_tags parses back to the
\* entry; a submit of the favourites table with no ★ and no tags text edited
\* has the checked set equal to the displayed set, which is favs, and leaves
\* favs and fav_tags as they were; and in every state such a submit of the
\* table now displayed would change nothing, so a second submit after a first
\* changes nothing either.
C22_UneditedSubmit ==
  /\ \A rid \in DOMAIN fav_tags :
       parse_tags(tags_str_for(fav_tags, rid)) = fav_tags[rid]
  /\ SubmittedUnedited =>
       /\ checkedSet = displayedSet
       /\ displayedSet = last.favs0
       /\ favs = last.favs0
       /\ fav_tags = last.tags0
  /\ fav_view # <<>> =>
       /\ commit_favs(favs, row_ids(df, fav_view),
                      [k \in 1..Len(fav_view) |-> TRUE]) = favs
       /\ commit_tags(fav_tags, row_ids(df, fav_view), fav_shown_tags) = fav_tags

\* the table was submitted unedited with two favourites, one with two tags
\* (its text holds the ", " of the join) and one with none
C22_UneditedSubmitWitness ==
  /\ SubmittedUnedited
  /\ \E k \in 1..Len(last_ids) :
       Cardinality(tags_get(last.tags0, last_ids[k])) = 2
  /\ \E k \in 1..Len(last_ids) : last.texts[k] = <<>>
  /\ favs = last.favs0
  /\ fav_tags = last.tags0

----------------------------------------------------------------------------
(* The favourites and the _row_id of the table *)

\* the _row_id of the rows of the loaded table
DatasetRowIds == {RowId(df, i) : i \in 1..RowCount[df]}

\* the _row_id of the rows the favourites table shows
FavViewRowIds == Range(row_ids(df, fav_view))

\* C23: on a fixed table, whatever commits of the main table, commits of the
\* favourites table, clear-alls and filter changes came before, every member
\* of favs is the _row_id of a row of the table, so the count the header
\* shows, len(favs), is the number of distinct _row_id of the favourites
\* table; a commit of the favourites table adds no _row_id to favs; a commit
\* of the main table adds only _row_id of rows of the filtered view that was
\* displayed.
C23_FavsWithinDataset ==
  /\ favs \subseteq DatasetRowIds
  /\ Cardinality(favs) = Cardinality(FavViewRowIds)
  /\ last.op = "apply_fav" => favs \subseteq last.favs0
  /\ last.op = "apply_main" => (favs \ last.favs0) \subseteq displayedSet

\* a commit from a main table that the filter had narrowed adds a _row_id
\* and keeps a favourite of a hidden row; two rows of the favourites table
\* share a _row_id, so the table has more rows than the header counts
C23_FavsWithinDatasetWitness ==
  /\ last.op = "apply_main"
  /\ Len(last.view) < RowCount[df]
  /\ favs \ last.favs0 # {}
  /\ (favs \cap last.favs0) \ displayedSet # {}
  /\ Cardinality(favs) < Len(fav_view)
  /\ Cardinality(favs) = Cardinality(FavViewRowIds)

====
